---- MODULE Spec2Model ----
(***************************************************************************)
(* Model of the `ratelim` crate (src/src/lib.rs): the RateLimiter cooldown *)
(* gate.  Instants and durations are integers (one unit = one clock tick). *)
(* The gate's own statements take no time; the caller's closure does: a    *)
(* call that invokes its closure hands control to it, the monotonic clock  *)
(* may advance while it runs, and the call ends when the closure returns   *)
(* or panics.                                                              *)
(***************************************************************************)
EXTENDS Integers, Sequences, FiniteSets

\* ------------------------------------------------------------------ bounds
\* Last instant the model's clock reaches.
MaxTime == 3
\* Largest ordinary cooldown passed to RateLimiter::new.
MaxCooldown == 3

\* The crate's doc example, in units of 100 ms: a 500 ms cooldown, five
\* iterations, 200 ms of sleep after each call.
DocCooldown == 5
DocIters == 5
DocNap == 2
\* The example is also run with every cooldown up to DocMaxCooldown, every
\* sleep up to DocMaxNap and a sleep overshooting by up to DocJitter.
DocMaxCooldown == 6
DocMaxNap == 3
DocJitter == 1
\* Number of Timer values in the timer's specification.
NTimers == 3
\* Longest time the doc example's closure takes.
DocMaxWork == 1
\* In the threads' specification: the last instant its clock reaches and the
\* number of closure runs after which no new call is started.
RaceMaxTime == 3
RaceMaxRuns == 3
\* Number of times a caller's closure panics.
MaxPanics == 1
\* Number of clone_from calls made on the gate.
MaxCopies == 1
\* Largest cooldown of a gate that clone_from copies from.
MaxCopyCooldown == 2
\* Clock units in one second where threads share the gate: a unit is 100 ms,
\* the scale of the documentation example.
SecUnits == 10
\* Where clock 0 can lie within its second.
Boots == 0 .. SecUnits - 1

\* Largest instant std::time::Instant can represent (scaled): every instant
\* a clock of the model reaches plus every ordinary cooldown stays
\* representable.
InstantMax ==
    MaxTime + MaxCooldown + 1
        + DocIters * (DocMaxNap + DocJitter + DocMaxWork) + DocMaxCooldown
\* Largest Duration (scaled).  As in std, Duration::MAX is beyond the range
\* of Instant: adding it to any instant overflows.
DurationMax == InstantMax + 1
\* Arguments given to RateLimiter::new: zero, ordinary cooldowns, a cooldown
\* that is representable from early instants only, and Duration::MAX.
Cooldowns == (0 .. MaxCooldown) \cup {InstantMax - 1, DurationMax}

\* ------------------------------------------------------------------ values
\* Option<Instant>
None == <<"None">>
Some(t) == <<"Some", t>>
\* Result<(), Duration>
Ok == <<"Ok">>
Err(d) == <<"Err", d>>
\* () and an unwinding panic
Unit == <<"()">>
Panic == <<"panic">>
\* No value yet: the call is in progress, control is in its closure.
Running == <<"running">>
\* A copy of the gate
Gate(c, s) == <<"RateLimiter", c, s>>
\* Duration returned by an accessor
Dur(d) == <<"Duration", d>>

VARIABLES
    phase,      \* "unbuilt" | "live" | "panicked": outcome of RateLimiter::new
    requested,  \* the argument passed to RateLimiter::new
    cooldown,   \* RateLimiter.cooldown (0 while there is no gate)
    start,      \* RateLimiter.start : Option<Instant>
    clock,      \* the monotonic clock read by Instant::now()
    op,         \* name of the last method called
    now,        \* the instant at which the last method was called
    prev,       \* self.start as it was when the last method was called
    ret,        \* what the last method returned; Running while in its closure
    ran,        \* how many times the last method invoked its closure
    arg,        \* the argument the last method passed to its closure
    runs,       \* instants at which the guarded closure was invoked, in order
    armed,      \* instant of the last start_now()/arming run_dt, if any (*)
    lastArmed,  \* the same, whatever was called since
    lastFail,   \* <<t, w>> of the last Err(w) of try_run still standing
    prevFail,   \* lastFail as it was when the last method was called
    threw,      \* how many times a closure has panicked
    opened,     \* instant a cold try_run/run armed the gate after its closure (*)
    lastGood,   \* instant of the last closure invocation that returned (*)
    taken,      \* the gates copied into this one by clone_from, in order
                \* (*) since the last clone_from, which starts them afresh
    doc,        \* the doc example's loop: its position, sleep and call instants
    timer,      \* the Timer values: per timer its state and its callback's calls
    mode,       \* "single" | "locked" | "free": how threads share the gate
    boot,       \* where clock 0 lies within its second, in clock units
    mutex,      \* the thread holding the callers' lock, 0 when it is free
    pc,         \* per thread: the statement of try_run it is about to execute
    lstart,     \* per thread: try_run's local `start`
    lnow,       \* per thread: try_run's local `now`
    passes      \* the checks passed: by whom, against which start, at what instant

gate == <<phase, requested, cooldown, start>>
call == <<op, now, prev, ret, ran, arg>>
hist == <<runs, armed, lastArmed, lastFail, prevFail, threw, opened, lastGood,
          taken>>
vars == <<phase, requested, cooldown, start, clock, op, now, prev, ret, ran,
          arg, runs, armed, lastArmed, lastFail, prevFail, threw, opened,
          lastGood, taken, doc, timer, mode, boot, mutex, pc, lstart, lnow,
          passes>>

\* State of the threads sharing a gate.
race == <<mode, boot, mutex, pc, lstart, lnow, passes>>

\* State of the programs around the gate that the gate's methods never touch.
others == <<doc, timer, race>>

\* Two threads of control share the gate.
Threads == {1, 2}
\* No thread is inside try_run.
NoRace ==
    /\ mutex = 0
    /\ pc = [t \in Threads |-> "idle"]
    /\ lstart = [t \in Threads |-> None]
    /\ lnow = [t \in Threads |-> 0]
    /\ passes = <<>>

Timers == 1 .. NTimers
\* No Timer yet: nothing started, the callback never called.
NoTimer ==
    [st |-> "none", started |-> 0, born |-> 0, calls |-> 0, elapsed |-> None,
     exit |-> "none", ended |-> 0, slept |-> 0]
\* The ways a scope owning a Timer ends.
ExitPaths == {"end", "return", "unwind"}

NoFail == <<>>

\* ------------------------------------------------------- pure expressions
\* Instant + Duration panics when the sum is not representable.
Representable(t) == t <= InstantMax

\* The deadline taken to be the start itself: the cooldown not added.
TCold_nocooldown(s, c) == s

\* let t_cold = start + self.cooldown;
TCold(s, c) == s + c

\* The deadline itself counted as still cooling.
Cooling_inclusive(n, t) == n <= t

\* if now < t_cold
Cooling(n, t) == n < t

\* A remaining wait rounded down to a coarser unit (two ticks).
Wait_truncated(t, n) == ((t - n) \div 2) * 2

\* Err(t_cold - now)
Wait(t, n) == t - n

\* let elapsed = now - start;
Elapsed(n, s) == n - s

\* The cooldown itself counted as not yet elapsed.
Cooled_strict(e, c) == e > c

\* if elapsed >= self.cooldown
Cooled(e, c) == e >= c

\* ---------------------------------------------------------------- methods
\* Each method maps self.start (s), self.cooldown (c) and the instants it
\* reads from the clock to the new self.start, the returned value, the number
\* of closure invocations and the closure's argument.  n is the instant of
\* the call, at which the method's own statements run up to and including the
\* invocation of the closure; m is the instant the closure returns.

\* Option::get_or_insert: an armed gate keeps its old start.
start_now_keep(s, n) ==
    [start |-> IF s = None THEN Some(n) ELSE s, ret |-> s, ran |-> 0,
     arg |-> None]

\* Option::insert: the new start is returned instead of the previous one.
start_now_insert(s, n) ==
    [start |-> Some(n), ret |-> Some(n), ran |-> 0, arg |-> None]

\* self.start.replace(Instant::now())
start_now(s, n) == [start |-> Some(n), ret |-> s, ran |-> 0, arg |-> None]

\* The cold call only arms the gate, as run_dt does.
try_run_coldarm(s, c, n, m) ==
    IF s = None
    THEN [start |-> start_now(s, m).start, ret |-> Ok, ran |-> 0, arg |-> None]
    ELSE IF ~Representable(TCold(s[2], c))
    THEN [start |-> s, ret |-> Panic, ran |-> 0, arg |-> None]
    ELSE IF Cooling(n, TCold(s[2], c))
    THEN [start |-> s, ret |-> Err(Wait(TCold(s[2], c), n)), ran |-> 0,
          arg |-> None]
    ELSE [start |-> Some(n), ret |-> Ok, ran |-> 1, arg |-> None]

\* Every attempt, also a rejected one, restarts the window.
try_run_touch(s, c, n, m) ==
    IF s = None
    THEN [start |-> start_now(s, m).start, ret |-> Ok, ran |-> 1, arg |-> None]
    ELSE IF ~Representable(TCold(s[2], c))
    THEN [start |-> s, ret |-> Panic, ran |-> 0, arg |-> None]
    ELSE IF Cooling(n, TCold(s[2], c))
    THEN [start |-> Some(n), ret |-> Err(Wait(TCold(s[2], c), n)), ran |-> 0,
          arg |-> None]
    ELSE [start |-> Some(n), ret |-> Ok, ran |-> 1, arg |-> None]

\* The hot call restarts the window when its closure returns, as the cold
\* call does, instead of at the instant it compared.
try_run_late(s, c, n, m) ==
    IF s = None
    THEN [start |-> start_now(s, m).start, ret |-> Ok, ran |-> 1, arg |-> None]
    ELSE IF ~Representable(TCold(s[2], c))
    THEN [start |-> s, ret |-> Panic, ran |-> 0, arg |-> None]
    ELSE IF Cooling(n, TCold(s[2], c))
    THEN [start |-> s, ret |-> Err(Wait(TCold(s[2], c), n)), ran |-> 0,
          arg |-> None]
    ELSE [start |-> Some(m), ret |-> Ok, ran |-> 1, arg |-> None]

\* let Some(start) = self.start else { f(); self.start_now(); return Ok(()) };
\* let t_cold = start + self.cooldown; let now = Instant::now();
\* if now < t_cold { Err(t_cold - now) }
\* else { f(); self.start.replace(now); Ok(()) }
\* On a cold gate the clock is read by start_now(), after the closure (m); on
\* a started gate it is read before the closure (n).
try_run(s, c, n, m) ==
    IF s = None
    THEN [start |-> start_now(s, m).start, ret |-> Ok, ran |-> 1, arg |-> None]
    ELSE IF ~Representable(TCold(s[2], c))
    THEN [start |-> s, ret |-> Panic, ran |-> 0, arg |-> None]
    ELSE IF Cooling(n, TCold(s[2], c))
    THEN [start |-> s, ret |-> Err(Wait(TCold(s[2], c), n)), ran |-> 0,
          arg |-> None]
    ELSE [start |-> Some(n), ret |-> Ok, ran |-> 1, arg |-> None]

\* The closure called without consulting the gate.
run_unchecked(s, c, n, m) ==
    [start |-> Some(m), ret |-> Unit, ran |-> 1, arg |-> None]

\* self.try_run(f).ok();
run(s, c, n, m) ==
    [start |-> try_run(s, c, n, m).start,
     ret   |-> IF try_run(s, c, n, m).ret = Panic THEN Panic ELSE Unit,
     ran   |-> try_run(s, c, n, m).ran,
     arg   |-> None]

\* The cold call fires the closure, as try_run does.
run_dt_coldfire(s, c, n) ==
    IF s = None
    THEN [start |-> start_now(s, n).start, ret |-> Unit, ran |-> 1,
          arg |-> Some(0)]
    ELSE IF Cooled(Elapsed(n, s[2]), c)
    THEN [start |-> Some(n), ret |-> Unit, ran |-> 1,
          arg |-> Some(Elapsed(n, s[2]))]
    ELSE [start |-> s, ret |-> Unit, ran |-> 0, arg |-> None]

\* Option::take on firing: the gate is left without a start.
run_dt_disarm(s, c, n) ==
    IF s = None
    THEN [start |-> start_now(s, n).start, ret |-> Unit, ran |-> 0, arg |-> None]
    ELSE IF Cooled(Elapsed(n, s[2]), c)
    THEN [start |-> None, ret |-> Unit, ran |-> 1,
          arg |-> Some(Elapsed(n, s[2]))]
    ELSE [start |-> s, ret |-> Unit, ran |-> 0, arg |-> None]

\* The closure given the cooldown instead of the measured elapsed time.
run_dt_capped(s, c, n) ==
    IF s = None
    THEN [start |-> start_now(s, n).start, ret |-> Unit, ran |-> 0, arg |-> None]
    ELSE IF Cooled(Elapsed(n, s[2]), c)
    THEN [start |-> Some(n), ret |-> Unit, ran |-> 1, arg |-> Some(c)]
    ELSE [start |-> s, ret |-> Unit, ran |-> 0, arg |-> None]

run_dt(s, c, n) ==
    IF s = None
    THEN [start |-> start_now(s, n).start, ret |-> Unit, ran |-> 0, arg |-> None]
    ELSE IF Cooled(Elapsed(n, s[2]), c)
    THEN [start |-> Some(n), ret |-> Unit, ran |-> 1,
          arg |-> Some(Elapsed(n, s[2]))]
    ELSE [start |-> s, ret |-> Unit, ran |-> 0, arg |-> None]

\* The period reported in whole coarser units (two ticks), as as_secs() does.
cooldown_period_whole(c) == Dur((c \div 2) * 2)

\* self.cooldown
cooldown_period(c) == Dur(c)

\* ------------------------------------------------------------------ actions
Init ==
    /\ phase = "unbuilt"
    /\ requested = 0
    /\ cooldown = 0
    /\ start = None
    /\ clock = 0
    /\ op = "none"
    /\ now = 0
    /\ prev = None
    /\ ret = Unit
    /\ ran = 0
    /\ arg = None
    /\ runs = <<>>
    /\ armed = None
    /\ lastArmed = None
    /\ lastFail = NoFail
    /\ prevFail = NoFail
    /\ threw = 0
    /\ opened = None
    /\ lastGood = None
    /\ taken = <<>>
    /\ doc = [pc |-> "off", nap |-> 0, at |-> <<>>]
    /\ timer = [i \in Timers |-> NoTimer]
    /\ mode = "single"
    /\ boot = 0
    /\ NoRace

\* The constructor without its assertion: a zero cooldown is accepted.
New_unchecked(c) ==
    /\ phase = "unbuilt"
    /\ requested' = c
    /\ op' = "new"
    /\ now' = clock
    /\ phase' = "live"
    /\ ret' = Unit
    /\ cooldown' = c
    /\ start' = None
    /\ UNCHANGED <<clock, prev, ran, arg, hist, others>>

\* RateLimiter::new(cooldown): assert!(!cooldown.is_zero())
New(c) ==
    /\ phase = "unbuilt"
    /\ requested' = c
    /\ op' = "new"
    /\ now' = clock
    /\ IF c = 0
       THEN /\ phase' = "panicked"
            /\ ret' = Panic
            /\ UNCHANGED cooldown
       ELSE /\ phase' = "live"
            /\ ret' = Unit
            /\ cooldown' = c
    /\ start' = None
    /\ UNCHANGED <<clock, prev, ran, arg, hist, others>>

\* The outcome of the method `name` called at n whose closure returns at m.
Outcome(name, s, c, n, m) ==
    IF name = "try_run" THEN try_run(s, c, n, m)
    ELSE IF name = "run" THEN run(s, c, n, m)
    ELSE run_dt(s, c, n)

\* What every call records when it is made, at `clock`.  A call that does not
\* invoke its closure returns in the same step with the result r; a call that
\* invokes it has done nothing to self.start yet and control is in the
\* closure.
Record(name, r) ==
    /\ ret # Running
    /\ op' = name
    /\ now' = clock
    /\ prev' = start
    /\ ran' = r.ran
    /\ arg' = r.arg
    /\ prevFail' = lastFail
    /\ IF r.ran = 1
       THEN /\ ret' = Running
            /\ runs' = Append(runs, clock)
            /\ UNCHANGED start
       ELSE /\ ret' = r.ret
            /\ start' = r.start
            /\ UNCHANGED runs
    /\ UNCHANGED <<phase, requested, cooldown, clock, threw, opened, lastGood,
                   taken>>

StartNow ==
    /\ phase = "live"
    /\ Record("start_now", start_now(start, clock))
    /\ armed' = Some(clock)
    /\ lastArmed' = Some(clock)
    /\ lastFail' = NoFail
    /\ UNCHANGED others

TryRun ==
    /\ phase = "live"
    /\ Record("try_run", try_run(start, cooldown, clock, clock))
    /\ lastFail' = IF try_run(start, cooldown, clock, clock).ret[1] = "Err"
                   THEN <<clock, try_run(start, cooldown, clock, clock).ret[2]>>
                   ELSE NoFail
    /\ UNCHANGED <<armed, lastArmed, others>>

Run ==
    /\ phase = "live"
    /\ Record("run", run(start, cooldown, clock, clock))
    /\ lastFail' = IF run(start, cooldown, clock, clock).ran = 1 THEN NoFail
                   ELSE lastFail
    /\ UNCHANGED <<armed, lastArmed, others>>

RunDt ==
    /\ phase = "live"
    /\ Record("run_dt", run_dt(start, cooldown, clock))
    /\ armed' = IF start = None THEN Some(clock) ELSE armed
    /\ lastArmed' = IF start = None THEN Some(clock) ELSE lastArmed
    /\ lastFail' = NoFail
    /\ UNCHANGED others

\* The closure returns, at `clock`: the call does what follows f() and
\* returns.  try_run on a cold gate calls start_now(), which reads the clock
\* now; on a started gate try_run and run_dt store the `now` they read before
\* the closure.
FReturn ==
    /\ ret = Running
    /\ start' = Outcome(op, prev, cooldown, now, clock).start
    /\ ret' = Outcome(op, prev, cooldown, now, clock).ret
    /\ lastGood' = Some(now)
    /\ opened' = IF prev = None THEN Some(clock) ELSE opened
    /\ UNCHANGED <<phase, requested, cooldown, clock, op, now, prev, ran, arg,
                   runs, armed, lastArmed, lastFail, prevFail, threw, taken,
                   others>>

\* The closure panics: the call unwinds from f() and nothing after it is
\* executed, self.start stays as it was.  The caller catches the panic and
\* goes on using the gate.
FUnwind ==
    /\ ret = Running
    /\ threw < MaxPanics
    /\ ret' = Panic
    /\ threw' = threw + 1
    /\ UNCHANGED <<gate, clock, op, now, prev, ran, arg, runs, armed,
                   lastArmed, lastFail, prevFail, opened, lastGood, taken,
                   others>>

CooldownPeriod ==
    /\ phase = "live"
    /\ ret # Running
    /\ op' = "cooldown_period"
    /\ now' = clock
    /\ prev' = start
    /\ ret' = cooldown_period(cooldown)
    /\ ran' = 0
    /\ arg' = None
    /\ prevFail' = lastFail
    /\ UNCHANGED <<gate, clock, runs, armed, lastArmed, lastFail, threw,
                   opened, lastGood, taken, others>>

\* #[derive(Clone)]: a copy of the gate is made; the gate is left as it is.
Clone ==
    /\ phase = "live"
    /\ ret # Running
    /\ op' = "clone"
    /\ now' = clock
    /\ prev' = start
    /\ ret' = Gate(cooldown, start)
    /\ ran' = 0
    /\ arg' = None
    /\ prevFail' = lastFail
    /\ UNCHANGED <<gate, clock, runs, armed, lastArmed, lastFail, threw,
                   opened, lastGood, taken, others>>

\* The gates clone_from can copy from: any gate a caller can have made by
\* now, with a cooldown new() accepts and a start read from the clock so far.
Sources ==
    {Gate(c, s) : c \in 1 .. MaxCopyCooldown,
                  s \in {None} \cup {Some(t) : t \in 0 .. clock}}

\* #[derive(Clone)], Clone::clone_from(&mut self, source): *self =
\* source.clone().  The gate's cooldown and start become the source's.
CloneFrom(g) ==
    /\ phase = "live"
    /\ ret # Running
    /\ Len(taken) < MaxCopies
    /\ op' = "clone_from"
    /\ now' = clock
    /\ prev' = start
    /\ cooldown' = g[2]
    /\ start' = g[3]
    /\ ret' = Unit
    /\ ran' = 0
    /\ arg' = None
    /\ prevFail' = lastFail
    /\ lastFail' = NoFail
    /\ armed' = None
    /\ opened' = None
    /\ lastGood' = None
    /\ taken' = Append(taken, g)
    /\ UNCHANGED <<phase, requested, clock, runs, lastArmed, threw, others>>

\* The monotonic clock advances, between calls and while a closure runs.
Tick ==
    /\ clock < MaxTime
    /\ clock' = clock + 1
    /\ UNCHANGED <<gate, call, hist, others>>

Next ==
    \/ \E c \in Cooldowns : New(c)
    \/ StartNow
    \/ TryRun
    \/ Run
    \/ RunDt
    \/ FReturn
    \/ FUnwind
    \/ CooldownPeriod
    \/ Clone
    \/ \E g \in Sources : CloneFrom(g)
    \/ Tick

Spec == Init /\ [][Next]_vars

\* ------------------------------------------------------- the doc example
\* let mut lim = RateLimiter::new(cooldown); let mut n = 0;
\* for _ in 0..5 { lim.run(|| n += 1); thread::sleep(nap); }
\* n is Len(runs).  The first call is made at instant 0.
InitDoc ==
    /\ phase = "live"
    /\ requested \in 1 .. DocMaxCooldown
    /\ cooldown = requested
    /\ start = None
    /\ clock = 0
    /\ op = "new"
    /\ now = 0
    /\ prev = None
    /\ ret = Unit
    /\ ran = 0
    /\ arg = None
    /\ runs = <<>>
    /\ armed = None
    /\ lastArmed = None
    /\ lastFail = NoFail
    /\ prevFail = NoFail
    /\ threw = 0
    /\ opened = None
    /\ lastGood = None
    /\ taken = <<>>
    /\ \E d \in 1 .. DocMaxNap : doc = [pc |-> "run", nap |-> d, at |-> <<>>]
    /\ timer = [i \in Timers |-> NoTimer]
    /\ mode = "single"
    /\ boot = 0
    /\ NoRace

\* lim.run(|| n += 1): the whole call, its closure taking d and returning.
DocRun ==
    /\ doc.pc = "run"
    /\ \E d \in 0 .. DocMaxWork :
          /\ run(start, cooldown, clock, clock + d).ran = 0 => d = 0
          /\ op' = "run"
          /\ now' = clock
          /\ prev' = start
          /\ start' = run(start, cooldown, clock, clock + d).start
          /\ ret' = run(start, cooldown, clock, clock + d).ret
          /\ ran' = run(start, cooldown, clock, clock + d).ran
          /\ arg' = run(start, cooldown, clock, clock + d).arg
          /\ clock' = clock + d
          /\ opened' = IF start = None THEN Some(clock + d) ELSE opened
    /\ runs' = IF ran' = 1 THEN Append(runs, clock) ELSE runs
    /\ lastGood' = IF ran' = 1 THEN Some(clock) ELSE lastGood
    /\ prevFail' = lastFail
    /\ lastFail' = IF ran' = 1 THEN NoFail ELSE lastFail
    /\ doc' = [doc EXCEPT !.pc = "sleep", !.at = Append(doc.at, clock)]
    /\ UNCHANGED <<phase, requested, cooldown, armed, lastArmed, threw, taken,
                   timer, race>>

\* thread::sleep(nap): the thread sleeps for at least nap; then the loop
\* runs again, or ends after DocIters iterations.
DocSleep ==
    /\ doc.pc = "sleep"
    /\ \E j \in 0 .. DocJitter : clock' = clock + doc.nap + j
    /\ doc' = [doc EXCEPT !.pc = IF Len(doc.at) < DocIters THEN "run"
                                 ELSE "done"]
    /\ UNCHANGED <<gate, call, hist, timer, race>>

NextDoc ==
    \/ DocRun
    \/ DocSleep

SpecDoc == InitDoc /\ [][NextDoc]_vars

\* --------------------------------------------------------------- the Timer
\* Timer::start: Self { started: Instant::now(), on_drop }
timer_start(n) ==
    [st |-> "live", started |-> n, born |-> n, calls |-> 0, elapsed |-> None,
     exit |-> "none", ended |-> 0, slept |-> 0]

\* #[derive(Clone)] on Timer: the copy, made at n, carries the original's
\* `started` and a copy of its callback; it has spent no time in its scope.
timer_clone(t, n) == [t EXCEPT !.born = n, !.slept = 0]

\* self.started.elapsed(): Instant::now() - self.started
timer_elapsed(t, n) == n - t.started

\* A drop that forgets its callback.
timer_drop_silent(t, n, path) ==
    [t EXCEPT !.st = "dropped", !.exit = path, !.ended = n]

\* Drop for Timer: (self.on_drop)(self.started.elapsed())
timer_drop(t, n, path) ==
    [t EXCEPT !.st = "dropped",
              !.calls = t.calls + 1,
              !.elapsed = Some(timer_elapsed(t, n)),
              !.exit = path,
              !.ended = n]

\* let _t = Timer::start(callback);
TimerStart(i) ==
    /\ timer[i].st = "none"
    /\ timer' = [timer EXCEPT ![i] = timer_start(clock)]
    /\ UNCHANGED <<gate, clock, call, hist, doc, race>>

\* let _u = _t.clone();
TimerClone(i, j) ==
    /\ i # j
    /\ timer[i].st = "live"
    /\ timer[j].st = "none"
    /\ timer' = [timer EXCEPT ![j] = timer_clone(timer[i], clock)]
    /\ UNCHANGED <<gate, clock, call, hist, doc, race>>

\* #[derive(Clone)] on Timer, Clone::clone_from(&mut self, source): *self =
\* source.clone().  The Timer that variable i held is dropped by the
\* assignment, which calls its callback; the copy of j that takes its place
\* is the Timer k.
TimerCloneFrom(i, j, k) ==
    /\ i # j
    /\ timer[i].st = "live"
    /\ timer[j].st = "live"
    /\ timer[k].st = "none"
    /\ timer' = [timer EXCEPT ![i] = timer_drop(timer[i], clock, "assign"),
                              ![k] = timer_clone(timer[j], clock)]
    /\ UNCHANGED <<gate, clock, call, hist, doc, race>>

\* The scope owning timer i ends, by reaching its end, by an early return or
\* by unwinding: the timer is dropped.
ScopeExit(i, path) ==
    /\ timer[i].st = "live"
    /\ timer' = [timer EXCEPT ![i] = timer_drop(timer[i], clock, path)]
    /\ UNCHANGED <<gate, clock, call, hist, doc, race>>

\* thread::sleep inside the scopes: one tick spent in every scope that owns
\* a live timer.
ScopeSleep ==
    /\ clock < MaxTime
    /\ clock' = clock + 1
    /\ timer' = [i \in Timers |->
                    IF timer[i].st = "live"
                    THEN [timer[i] EXCEPT !.slept = timer[i].slept + 1]
                    ELSE timer[i]]
    /\ UNCHANGED <<gate, call, hist, doc, race>>

NextTimer ==
    \/ \E i \in Timers : TimerStart(i)
    \/ \E i, j \in Timers : TimerClone(i, j)
    \/ \E i, j, k \in Timers : TimerCloneFrom(i, j, k)
    \/ \E i \in Timers, path \in ExitPaths : ScopeExit(i, path)
    \/ ScopeSleep

SpecTimer == Init /\ [][NextTimer]_vars

\* ------------------------------------------------- threads sharing a gate
\* Several threads of control call try_run on one gate, statement by
\* statement.  In mode "locked" every call is made inside the callers' lock;
\* in mode "free" the calls interleave.

\* The callers' lock, taken before a call and released when it returns.
Acquire(t) == IF mode = "locked" THEN mutex = 0 /\ mutex' = t
              ELSE UNCHANGED mutex
Release(t) == IF mode = "locked" THEN mutex' = 0 ELSE UNCHANGED mutex

InitRace ==
    /\ phase = "live"
    /\ requested \in Cooldowns \ {0}
    /\ cooldown = requested
    /\ start = None
    /\ clock = 0
    /\ op = "new"
    /\ now = 0
    /\ prev = None
    /\ ret = Unit
    /\ ran = 0
    /\ arg = None
    /\ runs = <<>>
    /\ armed = None
    /\ lastArmed = None
    /\ lastFail = NoFail
    /\ prevFail = NoFail
    /\ threw = 0
    /\ opened = None
    /\ lastGood = None
    /\ taken = <<>>
    /\ doc = [pc |-> "off", nap |-> 0, at |-> <<>>]
    /\ timer = [i \in Timers |-> NoTimer]
    /\ mode \in {"locked", "free"}
    /\ boot \in Boots
    /\ NoRace

\* The statements at which a thread writes self.start.
StorePcs == {"cold_store", "hot_store"}

\* Instant is two words, whole seconds and the nanoseconds within the
\* second; in Option<Instant> None is a reserved value of the nanoseconds
\* word, beside which the seconds word holds nothing specified.  The words of
\* the instant t units after clock 0:
Sec(t) == (t + boot) \div SecUnits
Sub(t) == (t + boot) % SecUnits
\* The instant made of the seconds word w and the sub-second word x, in units
\* after clock 0 (before it when negative).
Whole(w, x) == w * SecUnits + x - boot
\* The seconds words of the instants of a run.
SecWords == 0 .. (RaceMaxTime + SecUnits - 1) \div SecUnits

\* self.start is read and written one word at a time.  Of two unordered
\* accesses the memory or the reader keeps either value, or the seconds of
\* one with the sub-second part of the other: when one of them is None, None
\* or the present one's sub-second part beside any seconds word.
Mix(a, b) ==
    IF a = b THEN {a}
    ELSE IF a = None
    THEN {None, b} \cup {Some(Whole(w, Sub(b[2]))) : w \in SecWords}
    ELSE IF b = None
    THEN {None, a} \cup {Some(Whole(w, Sub(a[2]))) : w \in SecWords}
    ELSE {a, b, Some(Whole(Sec(a[2]), Sub(b[2]))),
                Some(Whole(Sec(b[2]), Sub(a[2])))}

\* What a read of self.start by thread t can give: its value, or in mode
\* "free", when another thread is writing it at that time, a mix of the
\* value and the one being written (a data race).
Reads(t) ==
    {start} \cup
    UNION {Mix(start, Some(lnow[u])) :
             u \in {v \in Threads : v # t /\ mode = "free" /\ pc[v] \in StorePcs}}

\* let Some(start) = self.start else { ... };
TCall(t) ==
    /\ pc[t] = "idle"
    /\ Len(runs) < RaceMaxRuns
    /\ Acquire(t)
    /\ \E s \in Reads(t) :
          /\ lstart' = [lstart EXCEPT ![t] = s]
          /\ pc' = [pc EXCEPT ![t] = IF s = None THEN "cold_f" ELSE "hot_check"]
    /\ UNCHANGED <<gate, clock, call, hist, doc, timer, mode, boot, lnow,
                   passes>>

\* f();  (start was None)
TColdAct(t) ==
    /\ pc[t] = "cold_f"
    /\ runs' = Append(runs, clock)
    /\ pc' = [pc EXCEPT ![t] = "cold_now"]
    /\ UNCHANGED <<gate, clock, call, armed, lastArmed, lastFail, prevFail,
                   threw, opened, lastGood, taken, doc, timer, mode, boot,
                   mutex, lstart, lnow, passes>>

\* self.start_now(): Instant::now() is evaluated, then stored.
TColdNow(t) ==
    /\ pc[t] = "cold_now"
    /\ lnow' = [lnow EXCEPT ![t] = clock]
    /\ pc' = [pc EXCEPT ![t] = "cold_store"]
    /\ UNCHANGED <<gate, clock, call, hist, doc, timer, mode, boot, mutex, lstart,
                   passes>>

\* self.start.replace(..) in start_now(); return Ok(());
TColdStore(t) ==
    /\ pc[t] = "cold_store"
    /\ start' = start_now(start, lnow[t]).start
    /\ passes' = Append(passes, [by |-> t, window |-> lstart[t],
                                 at |-> lnow[t]])
    /\ pc' = [pc EXCEPT ![t] = "idle"]
    /\ lstart' = [lstart EXCEPT ![t] = None]
    /\ lnow' = [lnow EXCEPT ![t] = 0]
    /\ Release(t)
    /\ UNCHANGED <<phase, requested, cooldown, clock, call, hist, doc, timer,
                   mode, boot>>

\* Two threads write self.start at the same time (mode "free" only): both
\* calls return Ok and the gate keeps a mix of the two instants.
TornStore(t, u) ==
    /\ mode = "free"
    /\ t < u
    /\ pc[t] \in StorePcs
    /\ pc[u] \in StorePcs
    /\ start' \in Mix(Some(lnow[t]), Some(lnow[u]))
    /\ passes' = passes \o <<[by |-> t, window |-> lstart[t], at |-> lnow[t]],
                             [by |-> u, window |-> lstart[u], at |-> lnow[u]]>>
    /\ pc' = [pc EXCEPT ![t] = "idle", ![u] = "idle"]
    /\ lstart' = [lstart EXCEPT ![t] = None, ![u] = None]
    /\ lnow' = [lnow EXCEPT ![t] = 0, ![u] = 0]
    /\ UNCHANGED <<phase, requested, cooldown, clock, call, hist, doc, timer,
                   mode, boot, mutex>>

\* let t_cold = start + self.cooldown; let now = Instant::now();
\* if now < t_cold { Err(t_cold - now) } else { ... }
THotCheck(t) ==
    /\ pc[t] = "hot_check"
    /\ IF ~Representable(TCold(lstart[t][2], cooldown))
       THEN /\ pc' = [pc EXCEPT ![t] = "panicked"]
            /\ lstart' = [lstart EXCEPT ![t] = None]
            /\ UNCHANGED lnow
       ELSE IF Cooling(clock, TCold(lstart[t][2], cooldown))
       THEN /\ pc' = [pc EXCEPT ![t] = "idle"]
            /\ lstart' = [lstart EXCEPT ![t] = None]
            /\ UNCHANGED lnow
       ELSE /\ pc' = [pc EXCEPT ![t] = "hot_f"]
            /\ lnow' = [lnow EXCEPT ![t] = clock]
            /\ UNCHANGED lstart
    /\ IF pc'[t] = "hot_f" THEN UNCHANGED mutex ELSE Release(t)
    /\ UNCHANGED <<gate, clock, call, hist, doc, timer, mode, boot, passes>>

\* f();  (the cooldown has elapsed)
THotAct(t) ==
    /\ pc[t] = "hot_f"
    /\ runs' = Append(runs, clock)
    /\ pc' = [pc EXCEPT ![t] = "hot_store"]
    /\ UNCHANGED <<gate, clock, call, armed, lastArmed, lastFail, prevFail,
                   threw, opened, lastGood, taken, doc, timer, mode, boot,
                   mutex, lstart, lnow, passes>>

\* self.start.replace(now); Ok(())
THotStore(t) ==
    /\ pc[t] = "hot_store"
    /\ start' = Some(lnow[t])
    /\ passes' = Append(passes, [by |-> t, window |-> lstart[t],
                                 at |-> lnow[t]])
    /\ pc' = [pc EXCEPT ![t] = "idle"]
    /\ lstart' = [lstart EXCEPT ![t] = None]
    /\ lnow' = [lnow EXCEPT ![t] = 0]
    /\ Release(t)
    /\ UNCHANGED <<phase, requested, cooldown, clock, call, hist, doc, timer,
                   mode, boot>>

\* The monotonic clock advances, also while calls are in progress.
RaceTick ==
    /\ clock < RaceMaxTime
    /\ clock' = clock + 1
    /\ UNCHANGED <<gate, call, hist, others>>

NextRace ==
    \/ \E t \in Threads : TCall(t)
    \/ \E t \in Threads : TColdAct(t)
    \/ \E t \in Threads : TColdNow(t)
    \/ \E t \in Threads : TColdStore(t)
    \/ \E t, u \in Threads : TornStore(t, u)
    \/ \E t \in Threads : THotCheck(t)
    \/ \E t \in Threads : THotAct(t)
    \/ \E t \in Threads : THotStore(t)
    \/ RaceTick

SpecRace == InitRace /\ [][NextRace]_vars

\* ------------------------------------------------------------ type sanity
TypeOK ==
    /\ phase \in {"unbuilt", "live", "panicked"}
    /\ clock \in 0 .. MaxTime
    /\ start = None \/ (start[1] = "Some" /\ start[2] \in 0 .. MaxTime)
    /\ ran \in {0, 1}
    /\ threw \in 0 .. MaxPanics
    /\ Len(taken) <= MaxCopies
    /\ \A i \in 1 .. Len(taken) :
          /\ taken[i][1] = "RateLimiter"
          /\ taken[i][2] \in 1 .. MaxCopyCooldown
          /\ taken[i][3] \in {None} \cup {Some(t) : t \in 0 .. MaxTime}
    /\ Len(runs) <= MaxTime + 1 + MaxPanics + MaxCopies

\* ----------------------------------------------------------------- helpers
Max(a, b) == IF a >= b THEN a ELSE b

\* Instants of the closure invocations made before the last call.
RunsBefore == IF ran = 1 THEN SubSeq(runs, 1, Len(runs) - 1) ELSE runs

\* The last call invoked its closure and the closure panicked.
ActionFailed == ran = 1 /\ ret = Panic

\* The last call is over and its closure, if it invoked it, returned.
Completed == ret # Running /\ ~ActionFailed

\* The last call passed the gate and invoked its closure; it returns v, unless
\* the closure is still running or has panicked.
Admitted(v) == ran = 1 /\ (ret = v \/ ret = Running \/ ActionFailed)

\* The last call has just been made: it was rejected, or control is in its
\* closure.  armed, opened and lastGood are still as they were before it.
JustCalled == ran = 0 \/ ret = Running

\* The cooldown the gate was given: by new(), or by the last clone_from.
Configured == IF taken = <<>> THEN requested ELSE taken[Len(taken)][2]

\* The start the gate was given by the last clone_from; -1 when there is none.
TakenStart ==
    IF taken = <<>> \/ taken[Len(taken)][3] = None THEN -1
    ELSE taken[Len(taken)][3][2]

\* The last call was try_run and it returned Err(_).
TryRunFailed == op = "try_run" /\ ret[1] = "Err"

\* The instant the cooldown window was last (re)started: the latest of the
\* last admission of a closure that returned, the instant the closure of a
\* cold try_run/run returned, and the last arming call (start_now, or run_dt
\* on a cold gate), all since the last clone_from, and the start that
\* clone_from copied in; -1 when there is none.
WindowStart ==
    Max(Max(IF lastGood = None THEN -1 ELSE lastGood[2],
            IF opened = None THEN -1 ELSE opened[2]),
        Max(IF armed = None THEN -1 ELSE armed[2], TakenStart))

\* ------------------------------------------------------------------ claims

\* C1 as stated: any two invocations of the guarded closure, whichever of
\* try_run, run and run_dt made them and whatever start_now calls came
\* between, are at least `cooldown` apart.
C1_RunsAtLeastCooldownApart ==
    \A i \in 1 .. Len(runs) - 1 : runs[i + 1] - runs[i] >= cooldown

\* As long as no closure has panicked, consecutive invocations are at least
\* `cooldown` apart, however long the closures take.
C1_ApartWhileNoPanic ==
    (threw = 0 /\ taken = <<>>) => C1_RunsAtLeastCooldownApart

\* C2: try_run on a freshly constructed gate (start absent) invokes the
\* closure exactly once and, when the closure has returned, returns Ok and
\* leaves start present: the instant the closure returned.
C2_FirstTryRunSucceeds ==
    (op = "try_run" /\ prev = None) =>
        /\ requested > 0
        /\ Admitted(Ok)
        /\ runs = Append(RunsBefore, now)
        /\ Completed =>
              /\ ret = Ok
              /\ start # None
              /\ start = opened
              /\ now <= start[2] /\ start[2] <= clock

\* The very first call: its closure took time and the gate was started when
\* it returned.
C2_Witness ==
    /\ op = "try_run"
    /\ prev = None
    /\ ret = Ok
    /\ runs = <<now>>
    /\ cooldown > 1
    /\ start[2] > now

\* C3: try_run on a started gate at an instant now < t_cold, where
\* t_cold = start + cooldown is the instant computed at the call, does not
\* invoke the closure, returns Err(t_cold - now) and leaves start and
\* cooldown unchanged.
C3_TryRunCoolingFails ==
    (/\ op = "try_run"
     /\ prev # None
     /\ Representable(prev[2] + cooldown)
     /\ now < prev[2] + cooldown) =>
        /\ ran = 0
        /\ ret = Err((prev[2] + cooldown) - now)
        /\ start = prev
        /\ cooldown = Configured

\* A failure in the middle of the window: some time elapsed, some remains,
\* and the two differ.
C3_Witness ==
    /\ TryRunFailed
    /\ now > prev[2]
    /\ ret[2] # now - prev[2]
    /\ ret[2] = prev[2] + cooldown - now
    /\ start = prev

\* C4: try_run on a started gate at an instant now >= start + cooldown
\* invokes the closure exactly once and, when the closure has returned,
\* returns Ok and sets start to now, the instant compared against the
\* deadline: not to the old deadline and not to the instant the closure
\* returned.  The next deadline is now + cooldown.
C4_TryRunCooledRestartsAtNow ==
    (op = "try_run" /\ prev # None /\ now >= prev[2] + cooldown) =>
        /\ Admitted(Ok)
        /\ runs = Append(RunsBefore, now)
        /\ IF Completed
           THEN /\ ret = Ok
                /\ start = Some(now)
                /\ TCold(start[2], cooldown) = now + cooldown
           ELSE start = prev

\* A success with overshoot: the call came after the deadline, and time has
\* passed since the comparison.
C4_Witness ==
    /\ op = "try_run"
    /\ prev # None
    /\ now > prev[2] + cooldown
    /\ ret = Ok
    /\ start = Some(now)
    /\ clock > now

\* C5 as stated: the failure value of try_run is deadline - now with
\* deadline = (instant of the last successful run) + cooldown; it strictly
\* decreases between two failures of one window; a try_run at or after that
\* deadline succeeds.
C5_AsStated ==
    /\ (TryRunFailed /\ lastGood # None) =>
          ret[2] = lastGood[2] + cooldown - now
    /\ (TryRunFailed /\ prevFail # NoFail /\ now > prevFail[1]) =>
          ret[2] < prevFail[2]
    /\ (/\ op = "try_run"
        /\ JustCalled
        /\ lastGood # None
        /\ now >= lastGood[2] + cooldown) => Admitted(Ok)

\* C5 amended: the failure value of try_run is deadline - now with
\* deadline = (instant the window was last started) + cooldown, the window
\* being started by the admission of a run, by the return of the closure of
\* a cold try_run/run, or by start_now / a cold run_dt, whichever came last;
\* it strictly decreases, by exactly the time passed, between two failures of
\* one window; a try_run at or after that deadline is admitted and returns Ok.
C5_Amended ==
    /\ TryRunFailed =>
          /\ WindowStart >= 0
          /\ prev = Some(WindowStart)
          /\ ret[2] = WindowStart + cooldown - now
    /\ (TryRunFailed /\ prevFail # NoFail /\ now > prevFail[1]) =>
          /\ ret[2] < prevFail[2]
          /\ ret[2] = prevFail[2] - (now - prevFail[1])
    /\ (/\ op = "try_run"
        /\ JustCalled
        /\ WindowStart >= 0
        /\ now >= WindowStart + cooldown) => Admitted(Ok)
    /\ (op = "try_run" /\ ran = 1 /\ Completed) => ret = Ok

\* A failure in a window that start_now restarted after the last run, later
\* than an earlier failure of the same window.
C5_Witness ==
    /\ TryRunFailed
    /\ lastGood # None
    /\ armed # None
    /\ armed[2] > lastGood[2]
    /\ prevFail # NoFail
    /\ now > prevFail[1]
    /\ ret[2] < prevFail[2]

\* C6: after try_run returned Err(w) at instant t, with no other operation
\* on the gate than try_run and run in between, a try_run before t + w fails
\* again without invoking the closure, and the first try_run or run at or
\* after t + w invokes it (try_run returning Ok).
C6_WaitingTheHintSuffices ==
    /\ (op = "try_run" /\ prevFail # NoFail) =>
          IF now < prevFail[1] + prevFail[2]
          THEN ret[1] = "Err" /\ ran = 0 /\ start = prev
          ELSE Admitted(Ok)
    /\ (op = "run" /\ prevFail # NoFail) =>
          IF now < prevFail[1] + prevFail[2]
          THEN ran = 0 /\ start = prev /\ ret = Unit
          ELSE Admitted(Unit)

\* try_run failed at t with w > 1, and the try_run made exactly at t + w
\* succeeded.
C6_Witness ==
    /\ op = "try_run"
    /\ prevFail # NoFail
    /\ prevFail[2] > 1
    /\ now = prevFail[1] + prevFail[2]
    /\ ret = Ok
    /\ ran = 1

\* C7: run is try_run with the result discarded: called on the same gate state
\* at the same instant, run invokes the closure exactly when try_run returns
\* Ok and, the closure returning at the same instant, leaves the same start;
\* when try_run returns Err, run invokes nothing, leaves start unchanged and
\* returns ().
C7_RunIsTryRunDiscarded ==
    op = "run" =>
        /\ (ran = 1) <=> (try_run(prev, cooldown, now, now).ret = Ok)
        /\ (ran = 1) <=>
              (prev = None \/ (/\ Representable(prev[2] + cooldown)
                               /\ now >= prev[2] + cooldown))
        /\ (ran = 1 /\ Completed) =>
              /\ ret = Unit
              /\ start = try_run(prev, cooldown, now,
                                 IF prev = None THEN opened[2] ELSE now).start
        /\ (ran = 1 /\ ~Completed) => start = prev
        /\ try_run(prev, cooldown, now, now).ret[1] = "Err" =>
              (ran = 0 /\ start = prev /\ ret = Unit /\ runs = RunsBefore)

\* run passed the gate after a try_run had failed in the same window.
C7_Witness ==
    /\ op = "run"
    /\ prevFail # NoFail
    /\ ran = 1
    /\ ret = Unit
    /\ start = Some(now)

\* C8: run_dt on a gate that was never started does not invoke the closure:
\* it sets start to the current instant, as start_now does, and returns.
C8_ColdRunDtOnlyArms ==
    (op = "run_dt" /\ prev = None) =>
        /\ ran = 0
        /\ arg = None
        /\ (threw = 0 /\ taken = <<>>) => runs = <<>>
        /\ lastGood = None
        /\ ret = Unit
        /\ start = Some(now)
        /\ start = start_now(prev, now).start

C8_Witness ==
    op = "run_dt" /\ prev = None /\ ran = 0 /\ start = Some(now) /\ now > 0

\* C9: run_dt on a started gate: when elapsed = now - start >= cooldown it
\* invokes the closure exactly once with elapsed itself (never less than
\* cooldown, not capped at it) and, when the closure has returned, sets start
\* to now; when elapsed < cooldown it does nothing and signals nothing.
C9_HotRunDt ==
    (op = "run_dt" /\ prev # None) =>
        IF now - prev[2] >= cooldown
        THEN /\ Admitted(Unit)
             /\ runs = Append(RunsBefore, now)
             /\ arg = Some(now - prev[2])
             /\ arg[2] >= cooldown
             /\ start = IF Completed THEN Some(now) ELSE prev
        ELSE /\ ran = 0
             /\ arg = None
             /\ start = prev
             /\ ret = Unit

\* run_dt fired with an elapsed time beyond the cooldown.
C9_Witness ==
    /\ op = "run_dt"
    /\ prev # None
    /\ ran = 1
    /\ arg[2] > cooldown
    /\ ret = Unit
    /\ start = Some(now)

\* C10: start_now sets start to the current instant whatever the gate's
\* state, returns the start the gate had before the call (None on a gate
\* never started) and invokes no closure.
C10_StartNowReplaces ==
    op = "start_now" =>
        /\ start = Some(now)
        /\ ret = prev
        /\ ran = 0
        /\ arg = None
        /\ runs = RunsBefore

\* start_now restarted a window that was still cooling down.
C10_Witness ==
    /\ op = "start_now"
    /\ prev # None
    /\ now > prev[2]
    /\ now < prev[2] + cooldown
    /\ ret = prev
    /\ start = Some(now)
    /\ runs # <<>>

\* C11: after any sequence of run, try_run, run_dt and start_now calls (with
\* cooldown_period and clone among them, which leave the gate alone),
\* cooldown_period() returns exactly the duration given to new(); those calls
\* never modify the gate's cooldown, and it is never zero.  (clone_from, not
\* one of those calls, replaces the cooldown by the source gate's.)
C11_CooldownIsFixed ==
    /\ phase = "live" => (cooldown = Configured /\ cooldown # 0)
    /\ (phase = "live" /\ taken = <<>>) => cooldown = requested
    /\ (op = "cooldown_period" /\ taken = <<>>) => ret = Dur(requested)
    /\ op = "cooldown_period" => ret = Dur(cooldown)

\* cooldown_period() asked after the closure ran twice and the window was
\* restarted by start_now, on a gate with an odd cooldown.
C11_Witness ==
    /\ op = "cooldown_period"
    /\ Len(runs) >= 2
    /\ armed # None
    /\ taken = <<>>
    /\ ret = Dur(requested)
    /\ requested % 2 = 1

\* C12: new(0) panics and yields no gate, so no closure ever runs through a
\* zero-cooldown gate; new(c) with c # 0 succeeds with start absent.
C12_ZeroCooldownRejected ==
    /\ (phase # "unbuilt" /\ requested = 0) =>
          /\ phase = "panicked"
          /\ op = "new"
          /\ ret = Panic
          /\ runs = <<>>
          /\ start = None
    /\ (phase # "unbuilt" /\ requested # 0) => phase = "live"
    /\ (op = "new" /\ requested # 0) =>
          (ret = Unit /\ start = None /\ cooldown = requested /\ runs = <<>>)
    /\ runs # <<>> => cooldown # 0

\* new(0) panicked, time went on and there is still no gate and no run.
C12_Witness ==
    /\ phase = "panicked"
    /\ requested = 0
    /\ clock > 1
    /\ runs = <<>>

\* C13 as stated: in every sequence of operations, start never goes from
\* present back to absent, and every replacement of start is by an instant
\* not earlier than the one replaced.
C13_StartMovesForward ==
    [][start # None => (start' # None /\ start'[2] >= start[2])]_vars

\* C13: in every sequence of new, start_now, run, try_run, run_dt,
\* cooldown_period and clone calls, start never goes from present back to
\* absent, and every replacement of start is by an instant not earlier than
\* the one replaced; clone_from replaces start by the source gate's, which
\* may be absent or earlier.
C13_StartMovesForwardBetweenCopies ==
    [][(start # None /\ taken' = taken) =>
           (start' # None /\ start'[2] >= start[2])]_vars

\* A call replaced a present start by a strictly later instant.
C13_Witness ==
    /\ prev # None
    /\ start # None
    /\ start[2] > prev[2]
    /\ op \in {"start_now", "try_run", "run", "run_dt"}

\* C16 as stated: whatever non-zero cooldown new() accepted, as long as no
\* closure has panicked, no call other than new() panics.
C16_NoCallPanics ==
    (op # "new" /\ threw = 0) => ret # Panic

\* C18: every Err(d) returned by try_run has 0 < d <= cooldown.
C18_WaitWithinCooldown ==
    TryRunFailed => (0 < ret[2] /\ ret[2] <= cooldown)

\* try_run failed one tick before the deadline of a window longer than that,
\* after it had failed at the very start of the window with the whole
\* cooldown to wait.
C18_Witness ==
    /\ TryRunFailed
    /\ ret[2] = 1
    /\ cooldown > 1
    /\ now = prev[2] + cooldown - 1
    /\ prevFail # NoFail
    /\ prevFail[2] = cooldown

\* C19: on a started gate try_run (and run) and run_dt apply the same gate
\* condition: from the same start at the same instant, run_dt invokes its
\* closure exactly when try_run returns Ok, and both leave the same start
\* when the call is over.  They differ in that respect only on a gate never
\* started.
C19_SameGateCondition ==
    /\ (op = "run_dt" /\ prev # None) =>
          /\ (ran = 1) <=> (try_run(prev, cooldown, now, now).ret = Ok)
          /\ start = IF Completed
                     THEN try_run(prev, cooldown, now, clock).start
                     ELSE prev
    /\ (op \in {"try_run", "run"} /\ prev # None) =>
          /\ (ran = 1) <=> (run_dt(prev, cooldown, now).ran = 1)
          /\ start = IF Completed
                     THEN run_dt(prev, cooldown, now).start
                     ELSE prev
    /\ (op \in {"try_run", "run", "run_dt"} /\ prev # None) =>
          ((ran = 1) <=> (now - prev[2] >= cooldown))
    /\ prev = None =>
          try_run(prev, cooldown, now, now).ran # run_dt(prev, cooldown, now).ran

\* run_dt fired exactly at the deadline of a window that a try_run started.
C19_Witness ==
    /\ op = "run_dt"
    /\ prev # None
    /\ armed = None
    /\ now - prev[2] = cooldown
    /\ ran = 1
    /\ ret = Unit
    /\ start = Some(now)

\* C20 as stated: after start_now() or a cold run_dt at instant t, every
\* try_run, run and run_dt before t + cooldown leaves the closure alone and
\* start unchanged, whatever was called on the gate in between.
C20_AsStated ==
    (/\ op \in {"try_run", "run", "run_dt"}
     /\ prev # None
     /\ lastArmed # None
     /\ now < lastArmed[2] + cooldown) => (ran = 0 /\ start = prev)

\* C20: arming counts as a start.  After start_now() or a cold run_dt at
\* instant t, with no clone_from on the gate since, every try_run, run and
\* run_dt before t + cooldown leaves the closure alone and start unchanged,
\* also on a gate whose closure never ran and also when t fell inside an
\* active cooldown; the call made at t + cooldown on that window runs the
\* closure.  clone_from puts the source gate's window in its place.
C20_ArmingStartsTheWindow ==
    /\ (/\ op \in {"try_run", "run", "run_dt"}
        /\ prev # None
        /\ armed # None
        /\ now < armed[2] + cooldown) => (ran = 0 /\ start = prev)
    /\ (op = "try_run" /\ prev # None /\ prev = armed
        /\ now < armed[2] + cooldown) => ret[1] \in {"Err", "panic"}
    /\ (/\ op \in {"try_run", "run", "run_dt"}
        /\ prev # None
        /\ prev = armed
        /\ now = armed[2] + cooldown) =>
          (ran = 1 /\ start = IF Completed THEN Some(now) ELSE prev)

\* The closure never ran; start_now armed the gate and a later try_run, made
\* before the armed window ended, was rejected.
C20_Witness ==
    /\ TryRunFailed
    /\ runs = <<>>
    /\ armed # None
    /\ prev = armed
    /\ now > armed[2]
    /\ ret[2] = armed[2] + cooldown - now

\* C3 as stated, for every cooldown new() accepts: try_run on a started gate
\* at an instant now < start + cooldown does not invoke the closure, returns
\* Err((start + cooldown) - now) and leaves start and cooldown unchanged.
C3_AsStated ==
    (op = "try_run" /\ prev # None /\ now < prev[2] + cooldown) =>
        /\ ran = 0
        /\ ret = Err((prev[2] + cooldown) - now)
        /\ start = prev
        /\ cooldown = Configured

\* The instants of the doc example's calls when every sleep is exact:
\* 0, 200, 400, 600 and 800 ms.
DocSchedule == [k \in 1 .. DocIters |-> (k - 1) * DocNap]

\* C14: with cooldown = 500 ms and run called five times on a fresh gate at
\* 0, 200, 400, 600 and 800 ms, the closure has run exactly twice when the
\* loop ends, at 0 and at 600 ms; the other three calls were skipped.
C14_DocExampleRunsTwice ==
    (cooldown = DocCooldown /\ doc.at = DocSchedule /\ doc.pc \in {"sleep", "done"})
        => (/\ runs = <<0, 3 * DocNap>>
            /\ Len(doc.at) - Len(runs) = 3
            /\ ret = Unit)

\* The loop of the doc example has ended after calls at exactly those instants.
C14_Witness ==
    /\ doc.pc = "done"
    /\ cooldown = DocCooldown
    /\ doc.nap = DocNap
    /\ doc.at = <<0, 2, 4, 6, 8>>
    /\ runs = <<0, 6>>

\* C15: a Timer does not invoke its callback when started (or copied); when
\* its scope ends, by its end, an early return or unwinding, its callback has
\* been invoked exactly once, with elapsed = (instant of exit) - (instant of
\* start), which is at least the time spent in the scope.  For a copy the
\* instant of start is the one of the Timer it was copied from.  A Timer that
\* clone_from overwrites leaves its scope there: its callback is invoked
\* once, at the assignment.
C15_TimerFiresOnceOnExit ==
    \A i \in Timers :
        /\ timer[i].st \in {"none", "live"} =>
              (timer[i].calls = 0 /\ timer[i].elapsed = None)
        /\ timer[i].st # "none" => timer[i].started <= timer[i].born
        /\ timer[i].st = "dropped" =>
              /\ timer[i].exit \in ExitPaths \cup {"assign"}
              /\ timer[i].calls = 1
              /\ timer[i].elapsed = Some(timer[i].ended - timer[i].started)
              /\ timer[i].elapsed[2] >= timer[i].ended - timer[i].born
              /\ timer[i].ended - timer[i].born >= timer[i].slept

\* One timer dropped by unwinding and a copy of it, made later, dropped by an
\* early return, both after some sleep in their scopes.
C15_Witness ==
    \E i, j \in Timers :
        /\ timer[i].st = "dropped" /\ timer[i].exit = "unwind"
        /\ timer[j].st = "dropped" /\ timer[j].exit = "return"
        /\ timer[i].started > 0
        /\ timer[j].born > timer[j].started
        /\ timer[i].slept > 0 /\ timer[j].slept > 0
        /\ timer[i].calls = 1 /\ timer[j].calls = 1

\* Two threads passed the check against the same start, and the closure ran
\* twice less than one cooldown apart.
DoublePass ==
    /\ \E i, j \in 1 .. Len(passes) :
          /\ i < j
          /\ passes[i].by # passes[j].by
          /\ passes[i].window = passes[j].window
    /\ \E k \in 1 .. Len(runs) - 1 : runs[k + 1] - runs[k] < cooldown

\* C17: try_run's check-and-run is a sequence of separate steps (read start,
\* read the clock, compare, run the closure, write start).  When every call
\* is made inside a lock, calls do not overlap, no start admits two passes,
\* and consecutive passes are checked at least one cooldown apart.  Without
\* the lock a state where two threads passed against the same start and the
\* closure ran twice within one cooldown is reachable (C17_Witness).
C17_LockedCallsPassOncePerWindow ==
    mode = "locked" =>
        /\ ~DoublePass
        /\ \A t \in Threads : pc[t] \notin {"idle", "panicked"} => mutex = t
        /\ \A i, j \in 1 .. Len(passes) :
              i < j => /\ passes[i].window # passes[j].window
                       /\ passes[j].at - passes[i].at >= cooldown

\* Without the lock: both threads read the same present start, both passed
\* the check and both ran the closure, inside one cooldown window.
C17_Witness ==
    /\ mode = "free"
    /\ DoublePass
    /\ \E i, j \in 1 .. Len(passes) :
          /\ i < j
          /\ passes[i].by # passes[j].by
          /\ passes[i].window # None
          /\ passes[i].window = passes[j].window
    /\ \A t \in Threads : pc[t] = "idle"

====
